---- MODULE Spec2Model ----
(***************************************************************************)
(* A model of the chat backend of hlavacdesign/poofballai:                 *)
(*   - python/server/server.py : the POST /chat request pipeline           *)
(*     (retrieval, context aggregation, prompt, LLM call, tolerant parse,  *)
(*     speech synthesis, audio artifact save, response);                   *)
(*   - python/server/agent.py  : the Agent class (conversation history and *)
(*     prompt building in Agent.run).                                      *)
(*                                                                         *)
(* Python strings are sequences of one-character strings; the long fixed   *)
(* texts of the source (prompt template, error answers) are kept as one    *)
(* element each, so that concatenating the elements of a sequence gives    *)
(* the Python string.                                                      *)
(***************************************************************************)
EXTENDS Integers, Sequences, FiniteSets, TLC

(***************************************************************************)
(* Bounds of the model.                                                    *)
(***************************************************************************)
\* request handlers (threads of the server)
NumWorkers == 2
\* identifiers uuid.uuid4() can return during a run
NumUuids == 2
\* longest conversation history of an Agent
MaxHist == 3
\* cycles of one session
MaxCycles == 2
\* requests of the serial server that reach the save step
MaxSaved == 1

Workers == 1..NumWorkers
Uuids == 1..NumUuids

(***************************************************************************)
(* Python str helpers.                                                     *)
(***************************************************************************)
\* the characters str.strip() removes (those the inputs can contain)
Whitespace == {" ", "\n", "\t", "\r"}

RECURSIVE LStrip(_)
\* str.lstrip(): drop leading whitespace
LStrip(s) ==
    IF s # <<>> /\ Head(s) \in Whitespace THEN LStrip(Tail(s)) ELSE s

RECURSIVE RStrip(_)
\* str.rstrip(): drop trailing whitespace
RStrip(s) ==
    IF s # <<>> /\ s[Len(s)] \in Whitespace
    THEN RStrip(SubSeq(s, 1, Len(s) - 1)) ELSE s

\* Strip with a slip: only leading whitespace is removed
StripLeftOnly(s) == LStrip(s)

\* Strip with a slip: the string is left as it is
NoStrip(s) == s

\* str.strip(): drop leading and trailing whitespace
Strip(s) == RStrip(LStrip(s))

RECURSIVE Join(_, _)
\* sep.join(parts) for a list of strings
Join(sep, parts) ==
    IF parts = <<>> THEN <<>>
    ELSE IF Len(parts) = 1 THEN parts[1]
    ELSE parts[1] \o sep \o Join(sep, Tail(parts))

(***************************************************************************)
(* json.loads, for the JSON subset the inputs use: objects, arrays,        *)
(* strings without escapes, non-negative integers, null, true, false.      *)
(* A Python value is a record                                              *)
(*   [type, s, items, dict]                                                *)
(* type in {"str","int","none","bool","list","dict"}; s the text of a str  *)
(* (or the literal of an int/bool), items the elements of a list, dict the *)
(* key -> value function of a dict (the last duplicate key wins).          *)
(***************************************************************************)
PyStr(s) == [type |-> "str", s |-> s, items |-> <<>>, dict |-> <<>>]
PyInt(s) == [type |-> "int", s |-> s, items |-> <<>>, dict |-> <<>>]
PyBool(s) == [type |-> "bool", s |-> s, items |-> <<>>, dict |-> <<>>]
PyNone == [type |-> "none", s |-> <<>>, items |-> <<>>, dict |-> <<>>]
PyList(xs) == [type |-> "list", s |-> <<>>, items |-> xs, dict |-> <<>>]
PyDict(d) == [type |-> "dict", s |-> <<>>, items |-> <<>>, dict |-> d]

JsonWs == {" ", "\t", "\n", "\r"}
Digits == {"0", "1", "2", "3", "4", "5", "6", "7", "8", "9"}
\* control characters a strict JSON string may not contain unescaped
ControlChars == {"\n", "\t", "\r"}
Quote == "\""

\* a failed parse
JErr == [ok |-> FALSE, val |-> PyNone, pos |-> 0]
\* a parsed value and the position after it
JOk(v, p) == [ok |-> TRUE, val |-> v, pos |-> p]

RECURSIVE SkipWs(_, _)
\* the first position from i on that holds no JSON whitespace
SkipWs(t, i) ==
    IF i <= Len(t) /\ t[i] \in JsonWs THEN SkipWs(t, i + 1) ELSE i

RECURSIVE ScanString(_, _)
\* the position of the quote closing a string whose text starts at i; 0 when
\* the text ends first, or holds a control character or a backslash (escapes
\* are outside the subset)
ScanString(t, i) ==
    IF i > Len(t) THEN 0
    ELSE IF t[i] = Quote THEN i
    ELSE IF t[i] \in ControlChars \/ t[i] = "\\" THEN 0
    ELSE ScanString(t, i + 1)

RECURSIVE ScanDigits(_, _)
\* the first position from i on that holds no digit
ScanDigits(t, i) ==
    IF i <= Len(t) /\ t[i] \in Digits THEN ScanDigits(t, i + 1) ELSE i

\* whether the literal word w stands at position i of t
HasWord(t, i, w) ==
    i + Len(w) - 1 <= Len(t) /\ SubSeq(t, i, i + Len(w) - 1) = w

WNull == <<"n", "u", "l", "l">>
WTrue == <<"t", "r", "u", "e">>
WFalse == <<"f", "a", "l", "s", "e">>

RECURSIVE ParseValue(_, _)
RECURSIVE ParseMembers(_, _, _)
RECURSIVE ParseElems(_, _, _)

\* a JSON value starting at position i (no leading whitespace)
ParseValue(t, i) ==
    IF i > Len(t) THEN JErr
    ELSE IF t[i] = Quote THEN
        LET j == ScanString(t, i + 1)
        IN IF j = 0 THEN JErr ELSE JOk(PyStr(SubSeq(t, i + 1, j - 1)), j + 1)
    ELSE IF t[i] = "{" THEN
        LET j == SkipWs(t, i + 1)
        IN IF j <= Len(t) /\ t[j] = "}" THEN JOk(PyDict(<<>>), j + 1)
           ELSE ParseMembers(t, j, <<>>)
    ELSE IF t[i] = "[" THEN
        LET j == SkipWs(t, i + 1)
        IN IF j <= Len(t) /\ t[j] = "]" THEN JOk(PyList(<<>>), j + 1)
           ELSE ParseElems(t, j, <<>>)
    ELSE IF HasWord(t, i, WNull) THEN JOk(PyNone, i + 4)
    ELSE IF HasWord(t, i, WTrue) THEN JOk(PyBool(WTrue), i + 4)
    ELSE IF HasWord(t, i, WFalse) THEN JOk(PyBool(WFalse), i + 5)
    ELSE IF t[i] = "0" THEN JOk(PyInt(<<"0">>), i + 1)
    ELSE IF t[i] \in Digits THEN
        LET j == ScanDigits(t, i)
        IN JOk(PyInt(SubSeq(t, i, j - 1)), j)
    ELSE JErr

\* the members of an object from position i (at a key) on, added to d
ParseMembers(t, i, d) ==
    IF i > Len(t) \/ t[i] # Quote THEN JErr
    ELSE
        LET j == ScanString(t, i + 1)
        IN IF j = 0 THEN JErr
           ELSE
             LET key == SubSeq(t, i + 1, j - 1)
                 c == SkipWs(t, j + 1)
             IN IF c > Len(t) \/ t[c] # ":" THEN JErr
                ELSE
                  LET v == ParseValue(t, SkipWs(t, c + 1))
                  IN IF ~v.ok THEN JErr
                     ELSE
                       LET d2 == (key :> v.val) @@ d
                           e == SkipWs(t, v.pos)
                       IN IF e > Len(t) THEN JErr
                          ELSE IF t[e] = "}" THEN JOk(PyDict(d2), e + 1)
                          ELSE IF t[e] = ","
                               THEN ParseMembers(t, SkipWs(t, e + 1), d2)
                          ELSE JErr

\* the elements of an array from position i (at a value) on, added to xs
ParseElems(t, i, xs) ==
    LET v == ParseValue(t, i)
    IN IF ~v.ok THEN JErr
       ELSE
         LET xs2 == Append(xs, v.val)
             e == SkipWs(t, v.pos)
         IN IF e > Len(t) THEN JErr
            ELSE IF t[e] = "]" THEN JOk(PyList(xs2), e + 1)
            ELSE IF t[e] = "," THEN ParseElems(t, SkipWs(t, e + 1), xs2)
            ELSE JErr

\* json.loads(t): [ok |-> FALSE] when it raises, else the value; text after
\* the value other than whitespace is an error ("Extra data")
JsonLoads(t) ==
    LET v == ParseValue(t, SkipWs(t, 1))
    IN IF ~v.ok THEN JErr
       ELSE IF SkipWs(t, v.pos) <= Len(t) THEN JErr
       ELSE v

(***************************************************************************)
(* The raw LLM outputs the model feeds to the parser.                      *)
(***************************************************************************)
LongKey == <<"l", "o", "n", "g", "_", "a", "n", "s", "w", "e", "r">>
ShortKey == <<"s", "h", "o", "r", "t", "_", "a", "n", "s", "w", "e", "r">>
MediaKey == <<"m", "e", "d", "i", "a", "_", "u", "r", "l", "s">>

\* the JSON text of a string without escapes
Lit(s) == <<Quote>> \o s \o <<Quote>>
\* the JSON text of one member: "key": value
Member(k, v) == Lit(k) \o <<":", " ">> \o v
\* the JSON text of an object with the given member texts
Obj(ms) == <<"{">> \o Join(<<",", " ">>, ms) \o <<"}">>
\* the JSON text of an array with the given element texts
Arr(xs) == <<"[">> \o Join(<<",", " ">>, xs) \o <<"]">>

TxtHi == <<" ", "h", "i", " ">>
TxtS == <<"s", " ">>
TxtU == <<"h", "t", "t", "p", ":", "/", "/", "x">>
TxtV == <<"h", "t", "t", "p", ":", "/", "/", "y">>

\* not json
RawNotJson == <<"n", "o", "t", " ", "j", "s", "o", "n">>
\* the empty output
RawEmpty == <<>>
\* {"long_answer": " hi ", "short_answer": "s ", "media_urls": ["http://x", "http://y"]}
RawFull ==
    Obj(<<Member(LongKey, Lit(TxtHi)), Member(ShortKey, Lit(TxtS)),
          Member(MediaKey, Arr(<<Lit(TxtU), Lit(TxtV)>>))>>)
\* the same object between newlines
RawPadded == <<"\n">> \o RawFull \o <<"\n", " ">>
\* the same object followed by commentary
RawExtra == RawFull \o <<" ", "o", "k">>
\* {"long_answer": " hi ", "short_answer": "s ", "media_urls": []}
RawNoUrls ==
    Obj(<<Member(LongKey, Lit(TxtHi)), Member(ShortKey, Lit(TxtS)),
          Member(MediaKey, Arr(<<>>))>>)
\* {"long_answer": " hi ", "short_answer": "s ", "media_urls": "http://x"}
RawMediaStr ==
    Obj(<<Member(LongKey, Lit(TxtHi)), Member(ShortKey, Lit(TxtS)),
          Member(MediaKey, Lit(TxtU))>>)
\* {"long_answer": " hi ", "short_answer": "s ", "media_urls": null}
RawMediaNull ==
    Obj(<<Member(LongKey, Lit(TxtHi)), Member(ShortKey, Lit(TxtS)),
          Member(MediaKey, WNull)>>)
\* {"long_answer": " hi ", "media_urls": {"long_answer": "http://x"}}
RawMediaDict ==
    Obj(<<Member(LongKey, Lit(TxtHi)),
          Member(MediaKey, Obj(<<Member(LongKey, Lit(TxtU))>>))>>)
\* {"long_answer": " hi ", "short_answer": "s "}
RawNoMedia ==
    Obj(<<Member(LongKey, Lit(TxtHi)), Member(ShortKey, Lit(TxtS))>>)
\* {"long_answer": " hi "}
RawLongOnly == Obj(<<Member(LongKey, Lit(TxtHi))>>)
\* {"short_answer": "s ", "media_urls": ["http://x"]}
RawNoLong ==
    Obj(<<Member(ShortKey, Lit(TxtS)), Member(MediaKey, Arr(<<Lit(TxtU)>>))>>)
\* {}
RawEmptyObj == <<"{", "}">>
\* {"long_answer": 5, "short_answer": "s "}
RawLongInt ==
    Obj(<<Member(LongKey, <<"5">>), Member(ShortKey, Lit(TxtS))>>)
\* {"long_answer": null, "media_urls": ["http://x"]}
RawLongNull ==
    Obj(<<Member(LongKey, WNull), Member(MediaKey, Arr(<<Lit(TxtU)>>))>>)
\* {"long_answer": " hi ", "short_answer": null, "media_urls": ["http://x"]}
RawShortNull ==
    Obj(<<Member(LongKey, Lit(TxtHi)), Member(ShortKey, WNull),
          Member(MediaKey, Arr(<<Lit(TxtU)>>))>>)
\* {"long_answer": " hi ", "short_answer": ["s "]}
RawShortList ==
    Obj(<<Member(LongKey, Lit(TxtHi)), Member(ShortKey, Arr(<<Lit(TxtS)>>))>>)
\* ["http://x"]
RawTopList == Arr(<<Lit(TxtU)>>)
\* " hi "
RawTopStr == Lit(TxtHi)
\* {"long_answer": " hi ", }
RawTrailingComma ==
    <<"{">> \o Member(LongKey, Lit(TxtHi)) \o <<",", " ", "}">>
\* {"long_answer": " hi "
RawUnclosed == <<"{">> \o Member(LongKey, Lit(TxtHi))
\* {"long_answer": "h<newline>i"}: a raw newline inside a string
RawCtrl == Obj(<<Member(LongKey, Lit(<<"h", "\n", "i">>))>>)
\* {"long_answer": "s ", "long_answer": " hi "}: a duplicate key
RawDupKey ==
    Obj(<<Member(LongKey, Lit(TxtS)), Member(LongKey, Lit(TxtHi))>>)

RawOutputs ==
    { RawNotJson, RawEmpty, RawFull, RawPadded, RawExtra, RawNoUrls,
      RawMediaStr, RawMediaNull, RawMediaDict, RawNoMedia, RawLongOnly,
      RawNoLong, RawEmptyObj, RawLongInt, RawLongNull, RawShortNull,
      RawShortList, RawTopList, RawTopStr, RawTrailingComma, RawUnclosed,
      RawCtrl, RawDupKey }

(***************************************************************************)
(* server.py: inputs of a request and outcomes of the collaborators.       *)
(***************************************************************************)
\* the "message" member of the request body: absent, null or a string
BodyMissing == [kind |-> "missing", s |-> <<>>]
BodyNull == [kind |-> "null", s |-> <<>>]
BodyStr(s) == [kind |-> "str", s |-> s]
Bodies ==
    { BodyMissing, BodyNull, BodyStr(<<>>), BodyStr(<<" ", "\n">>),
      BodyStr(<<" ", "q", "?", "\n">>), BodyStr(<<"w">>) }

\* data.get("message", "")
GetMessage(body) ==
    IF body.kind = "missing" THEN PyStr(<<>>)
    ELSE IF body.kind = "null" THEN PyNone
    ELSE PyStr(body.s)

\* one match of a query result: its metadata is None, or a dict that may hold
\* "text" and may hold "urls"
MatchOf(mdNone, hasText, text, hasUrls, urls) ==
    [md_none |-> mdNone, has_text |-> hasText, text |-> text,
     has_urls |-> hasUrls, urls |-> urls]
TxtDoc == <<"d", "o", "c">>
MatchText == MatchOf(FALSE, TRUE, TxtDoc, FALSE, <<>>)
MatchUrls == MatchOf(FALSE, FALSE, <<>>, TRUE, <<TxtU, TxtV>>)
MatchBoth == MatchOf(FALSE, TRUE, TxtDoc, TRUE, <<TxtU>>)
MatchBare == MatchOf(FALSE, FALSE, <<>>, FALSE, <<>>)
MatchNoMd == MatchOf(TRUE, FALSE, <<>>, FALSE, <<>>)

\* results.matches: None or a list of matches (top_k = 3)
MatchesNone == [none |-> TRUE, items |-> <<>>]
MatchesList(ms) == [none |-> FALSE, items |-> ms]
MatchLists ==
    { MatchesNone, MatchesList(<<>>), MatchesList(<<MatchText>>),
      MatchesList(<<MatchUrls, MatchBare>>),
      MatchesList(<<MatchBoth, MatchText, MatchUrls>>),
      MatchesList(<<MatchText, MatchNoMd>>) }

\* what the retrieval collaborator does: pc.inference.embed raises,
\* index.query raises, or the query returns a result
RetrievalOutcomes ==
    { [kind |-> "embed_raises", matches |-> MatchesNone],
      [kind |-> "query_raises", matches |-> MatchesNone] }
    \cup { [kind |-> "ok", matches |-> m] : m \in MatchLists }

\* what llm.predict_messages does: raises, or returns a content
LlmOutcomes ==
    { [kind |-> "raises", content |-> <<>>] }
    \cup { [kind |-> "ok", content |-> r] : r \in RawOutputs }

\* mp3 bytes, one element per chunk
AudioA == <<"ID3", "a">>
AudioB == <<"ID3", "b">>
\* what requests.post does: raises (transport failure), or returns a response
\* with a status code and a content
TtsOutcomes ==
    { [kind |-> "raises", code |-> 0, content |-> <<>>],
      [kind |-> "response", code |-> 200, content |-> AudioA],
      [kind |-> "response", code |-> 200, content |-> AudioB],
      [kind |-> "response", code |-> 200, content |-> <<>>],
      [kind |-> "response", code |-> 204, content |-> <<>>],
      [kind |-> "response", code |-> 500, content |-> <<"e", "r", "r">>] }

(***************************************************************************)
(* server.py: the fixed texts.                                             *)
(***************************************************************************)
MsgNoMessage == <<"No message received.">>
MsgRetrievalError == <<"Error retrieving context from Pinecone.">>
MsgLlmError == <<"Sorry, encountered an error generating the answer.">>
ShortFallback == <<"Here is a short summary.">>
UrlsHeader == <<"Possible relevant URLs:\n">>
HostUrl == <<"http://localhost:5000/">>

PromptHead ==
    <<"\nYou are Version One, a virtual representation of Michal Hlavac. \nYou are talking to the user as Michal may speak in first person on Michal's behalf.\n\nUser question:\n">>
PromptMid == <<"\n\nRelevant context:\n">>
PromptTail ==
    <<"\n\nGenerate a STRICT JSON object with the keys \"long_answer\", \"short_answer\", and \"media_urls\". Example:\n{\n  \"long_answer\": \"...\",\n  \"short_answer\": \"...\",\n  \"media_urls\": [\"...\", \"...\"]\n}\n\nWhere:\n- long_answer is a very short response to the user, using the context if relevant\n- short_answer is a concise summary\n- media_urls is a list of one or more URLs IF relevant, otherwise an empty list.\n\nNote: If any URLs in the context are relevant, please include them in \"media_urls\". \nOutput ONLY valid JSON, with no extra commentary.\n">>

\* a chat message: HumanMessage or AIMessage with its content
HumanMessage(c) == [role |-> "human", content |-> c]
AIMessage(c) == [role |-> "ai", content |-> c]

(***************************************************************************)
(* server.py: the pure parts of chat().                                    *)
(***************************************************************************)
\* results.matches or []
MatchesOrEmpty(m) == IF m.none THEN <<>> ELSE m.items

\* what one match adds to context_str
MatchContext(m) ==
    (IF m.has_text THEN m.text \o <<"\n", "\n">> ELSE <<>>)
    \o (IF m.has_urls
        THEN UrlsHeader \o Join(<<"\n">>, m.urls) \o <<"\n", "\n">>
        ELSE <<>>)

RECURSIVE BuildContext(_)
\* the loop over matches that builds context_str
BuildContext(ms) ==
    IF ms = <<>> THEN <<>>
    ELSE MatchContext(Head(ms)) \o BuildContext(Tail(ms))

\* whether the loop over matches raises: "text" in md with md None
ContextRaises(ms) == \E i \in 1..Len(ms) : ms[i].md_none

\* the f-string prompt
BuildPrompt(user_message, context_str) ==
    PromptHead \o user_message \o PromptMid \o context_str \o PromptTail

\* messages = [HumanMessage(content=prompt)]
BuildMessages(user_message, context_str) ==
    << HumanMessage(BuildPrompt(user_message, context_str)) >>

\* dict.get(key, default)
DictGet(d, key, default) == IF key \in DOMAIN d THEN d[key] ELSE default

\* the result of step 4d: the three variables, and whether the except branch
\* ran
Parsed(long, short, media, fb) ==
    [long_answer |-> long, short_answer |-> short, media_urls |-> media,
     fallback |-> fb]

\* ParseFallback with a slip: the raw text is dropped
ParseFallbackEmpty(raw) == Parsed(<<>>, ShortFallback, <<>>, TRUE)

\* the except branch of step 4d
ParseFallback(raw) == Parsed(raw, ShortFallback, <<>>, TRUE)

\* step 4d: json.loads, the two .get(...).strip() and the media_urls check;
\* an exception anywhere in the try block (no JSON, parsed has no .get, a
\* value has no .strip) runs the except branch
ParseLLMOutput(raw) ==
    LET j == JsonLoads(raw)
    IN IF ~j.ok \/ j.val.type # "dict" THEN ParseFallback(raw)
       ELSE
         LET la == DictGet(j.val.dict, LongKey, PyStr(<<>>))
             sa == DictGet(j.val.dict, ShortKey, PyStr(<<>>))
             mu == DictGet(j.val.dict, MediaKey, PyList(<<>>))
         IN IF la.type # "str" \/ sa.type # "str" THEN ParseFallback(raw)
            ELSE Parsed(Strip(la.s), Strip(sa.s),
                        IF mu.type = "list" THEN mu.items ELSE <<>>, FALSE)

\* generate_elevenlabs_tts: raises when requests.post raises, returns the
\* content on status 200 and None otherwise
GenerateTts(o) ==
    [raised |-> o.kind = "raises",
     none |-> o.kind = "raises" \/ o.code # 200,
     bytes |-> IF o.kind = "response" /\ o.code = 200 THEN o.content ELSE <<>>]

\* not audio_data
NotAudioData(a) == a.none \/ a.bytes = <<>>

HexDigits ==
    <<"1", "2", "3", "4", "5", "6", "7", "8", "9", "a", "b", "c", "d", "e", "f">>
\* uuid.uuid4().hex, one digit standing for the 32
UuidHex(u) == <<HexDigits[u]>>

\* AudioFilename with a slip: one fixed name for every request
AudioFilenameFixed(u) == <<"audio_", "out", ".mp3">>

\* filename = f"audio_{uuid.uuid4().hex}.mp3"
AudioFilename(u) == <<"audio_">> \o UuidHex(u) \o <<".mp3">>

\* audio_url = request.host_url + "audio/" + filename
AudioUrl(filename) == HostUrl \o <<"audio/">> \o filename

\* the JSON body of a response and its HTTP status; status 0: no response yet
Response(status, long, short, audio, media) ==
    [status |-> status, long_response |-> long, short_response |-> short,
     audio_url |-> audio, media_urls |-> media]
NoResponse == Response(0, <<>>, <<>>, <<>>, <<>>)
\* an exception no handler of chat() catches: the framework answers 500
ErrorResponse == Response(500, <<>>, <<>>, <<>>, <<>>)

(***************************************************************************)
(* State.                                                                  *)
(*   pc[w]        where handler w stands in chat(): "idle" (no request),   *)
(*                "retrieve" (before embed), "query", "aggregate", "llm",  *)
(*                "parse", "tts", "save" (before the file is opened),      *)
(*                "write" (the file is open and being written),            *)
(*                "respond", "done" (response returned), "crashed" (an     *)
(*                uncaught exception left chat())                          *)
(*   loc[w]       the local variables of chat() in handler w               *)
(*   response[w]  the HTTP response of handler w's request                 *)
(*   calls[w]     the external calls handler w's request made, in order,   *)
(*                each with its outcome: "ok", "raised" or, for the TTS    *)
(*                provider, "non200"                                       *)
(*   audio_files  the directory audio_files of the working directory,      *)
(*                where chat() writes: filename -> bytes                   *)
(*   issued       the identifiers uuid4() has returned                     *)
(*   cwd          the working directory the server was started in: the     *)
(*                directory of server.py (the root path of the Flask app)  *)
(*                or another one                                           *)
(*   returned     the audio files the responses of chat() have named in    *)
(*                their audio_url: filename -> the bytes synthesized for   *)
(*                the request (a record of the responses sent)             *)
(***************************************************************************)
VARIABLES pc, loc, response, calls, audio_files, issued, cwd, returned

(***************************************************************************)
(* State of an Agent (agent.py).                                           *)
(*   conversation_history  self.conversation_history                       *)
(*   agent_call            the last call of run(): whether there is one,   *)
(*                         its arguments, the message list it gave to      *)
(*                         predict_messages and what it returned (None or  *)
(*                         the content); the record is dropped when the    *)
(*                         history next changes                            *)
(***************************************************************************)
VARIABLES conversation_history, agent_call

(***************************************************************************)
(*   served   the last response of serve_audio (GET /audio/<filename>):    *)
(*            the filename asked for, the status and the body              *)
(*   session  one session of the pipeline that drives an Agent and a       *)
(*            Memory: its stage, the message of the current cycle, what    *)
(*            the provider did and what retrieve_context returned, the     *)
(*            context string, and the number of cycles completed           *)
(***************************************************************************)
VARIABLES served, session

server_vars ==
    <<pc, loc, response, calls, audio_files, issued, served, cwd, returned>>
agent_vars == <<conversation_history, agent_call>>
\* what chat() does not touch
env_vars == <<conversation_history, agent_call, served, session, cwd>>
\* what chat() does not touch before it returns its response
other_vars == <<env_vars, returned>>
vars == <<pc, loc, response, calls, audio_files, issued, cwd, returned,
          conversation_history, agent_call, served, session>>

\* the working directories a server is started in: the directory of
\* server.py, which Flask(__name__) takes as the root path of the app, or
\* any other (python src/python/server/server.py from the repository root)
Cwds == { "app_root", "elsewhere" }

\* no call of run() on record
NoAgentCall ==
    [ran |-> FALSE, user_message |-> <<>>, context_str |-> <<>>,
     sent |-> <<>>, none |-> TRUE, content |-> <<>>]

\* audio_data: None, or bytes
AudioNone == [raised |-> FALSE, none |-> TRUE, bytes |-> <<>>]

\* no GET /audio/<filename> answered yet
NoServed == [filename |-> <<>>, status |-> 0, body |-> <<>>]

\* what retrieve_context gives its caller: an exception (never, see
\* RetrieveContext), None, or the provider's result object, whose matches
\* are None or a list
NoFetched == [raised |-> FALSE, none |-> TRUE, results |-> MatchesNone]

\* the provider has not been asked
NoProvider == [kind |-> "", matches |-> MatchesNone]

\* a session between two cycles, none completed
NoSession ==
    [stage |-> "idle", user_message |-> <<>>, provider |-> NoProvider,
     fetched |-> NoFetched, context_str |-> <<>>, cycles |-> 0]

\* the locals of chat() before any is assigned
NoLocals ==
    [data |-> BodyMissing, user_message |-> <<>>, matches |-> MatchesNone, context_str |-> <<>>,
     messages |-> <<>>, raw_llm_output |-> <<>>, long_answer |-> <<>>,
     short_answer |-> <<>>, media_urls |-> <<>>, fallback |-> FALSE,
     audio_data |-> AudioNone, filename |-> <<>>, audio_url |-> <<>>]

Init ==
    /\ pc = [w \in Workers |-> "idle"]
    /\ loc = [w \in Workers |-> NoLocals]
    /\ response = [w \in Workers |-> NoResponse]
    /\ calls = [w \in Workers |-> <<>>]
    /\ audio_files = <<>>
    /\ issued = {}
    /\ cwd \in Cwds
    /\ returned = <<>>
    /\ conversation_history = <<>>
    /\ agent_call = NoAgentCall
    /\ served = NoServed
    /\ session = NoSession

\* handler w returns resp from chat()
Return(w, resp) ==
    /\ pc' = [pc EXCEPT ![w] = "done"]
    /\ response' = [response EXCEPT ![w] = resp]

\* an exception leaves chat() in handler w
Crash(w) ==
    /\ pc' = [pc EXCEPT ![w] = "crashed"]
    /\ response' = [response EXCEPT ![w] = ErrorResponse]

\* handler w goes on to step p of chat()
Goto(w, p) ==
    /\ pc' = [pc EXCEPT ![w] = p]
    /\ UNCHANGED response

\* the response to an empty message
EmptyMessageResponse == Response(200, MsgNoMessage, <<>>, <<>>, <<>>)

\* lines 107-115: read the message, strip it, answer at once when it is empty
Receive(w, body) ==
    /\ pc[w] = "idle"
    /\ LET m == GetMessage(body)
       IN IF m.type # "str"
          THEN /\ Crash(w)
               /\ loc' = [loc EXCEPT ![w].data = body]
          ELSE IF Strip(m.s) = <<>>
          THEN /\ Return(w, EmptyMessageResponse)
               /\ loc' = [loc EXCEPT ![w].data = body]
          ELSE /\ Goto(w, "retrieve")
               /\ loc' = [loc EXCEPT ![w] =
                            [@ EXCEPT !.data = body,
                                      !.user_message = Strip(m.s)]]
    /\ UNCHANGED <<calls, audio_files, issued>>
    /\ UNCHANGED other_vars

\* RetrievalRaises with a slip: the query is outside the try block
RetrievalRaisesEmbedOnly(o) == o.kind = "embed_raises"

\* RetrievalRaises with a slip: no match is taken for a failure
RetrievalRaisesOrNoMatch(o) ==
    o.kind \in {"embed_raises", "query_raises"}
    \/ MatchesOrEmpty(o.matches) = <<>>

\* whether the try block of step 4a raises
RetrievalRaises(o) == o.kind \in {"embed_raises", "query_raises"}

\* one external call and its outcome
Call(name, outcome) == [call |-> name, outcome |-> outcome]

\* what pc.inference.embed does in chat(): raises, or returns the vector
EmbedOutcomes == { "raised", "ok" }

\* what index.query does in chat(): raises, or returns a result
QueryOutcomes == { o \in RetrievalOutcomes : o.kind # "embed_raises" }

\* the response to a retrieval error
RetrievalErrorResponse == Response(200, MsgRetrievalError, <<>>, <<>>, <<>>)

\* lines 117-128 and 154-161: the first blocking call of the try block,
\* pc.inference.embed; when it raises, the handler returns the error answer
Embed(w, e) ==
    /\ pc[w] = "retrieve"
    /\ calls' = [calls EXCEPT ![w] = Append(@, Call("embed", e))]
    /\ IF e = "raised"
       THEN Return(w, RetrievalErrorResponse)
       ELSE Goto(w, "query")
    /\ UNCHANGED <<loc, audio_files, issued>>
    /\ UNCHANGED other_vars

\* lines 130-161: the second blocking call of the try block, index.query,
\* and the debug print of its result
Query(w, o) ==
    /\ pc[w] = "query"
    /\ calls' = [calls EXCEPT ![w] =
                    Append(@, Call("query", IF o.kind = "query_raises"
                                            THEN "raised" ELSE "ok"))]
    /\ IF RetrievalRaises(o)
       THEN Return(w, RetrievalErrorResponse) /\ UNCHANGED loc
       ELSE /\ Goto(w, "aggregate")
            /\ loc' = [loc EXCEPT ![w].matches = o.matches]
    /\ UNCHANGED <<audio_files, issued>>
    /\ UNCHANGED other_vars

\* lines 163-213: gather context_str from the matches, build the prompt and
\* the message list; the loop is outside every try block
Aggregate(w) ==
    /\ pc[w] = "aggregate"
    /\ LET ms == MatchesOrEmpty(loc[w].matches)
           ctx == BuildContext(ms)
       IN IF ContextRaises(ms)
          THEN Crash(w) /\ UNCHANGED loc
          ELSE /\ Goto(w, "llm")
               /\ loc' = [loc EXCEPT ![w] =
                            [@ EXCEPT !.context_str = ctx,
                                      !.messages =
                                          BuildMessages(loc[w].user_message, ctx)]]
    /\ UNCHANGED <<calls, audio_files, issued>>
    /\ UNCHANGED other_vars

\* the response to an LLM error
LlmErrorResponse == Response(200, MsgLlmError, <<>>, <<>>, <<>>)

\* CallLLM with a slip: the except branch does not return, the error text
\* goes on through the pipeline
CallLLMGoesOn(w, o) ==
    /\ pc[w] = "llm"
    /\ calls' = [calls EXCEPT ![w] =
                    Append(@, Call("llm", IF o.kind = "raises"
                                          THEN "raised" ELSE "ok"))]
    /\ Goto(w, "parse")
    /\ loc' = [loc EXCEPT ![w].raw_llm_output =
                   IF o.kind = "raises" THEN MsgLlmError ELSE o.content]
    /\ UNCHANGED <<audio_files, issued>>
    /\ UNCHANGED other_vars

\* lines 215-226: call the LLM with the message list
CallLLM(w, o) ==
    /\ pc[w] = "llm"
    /\ calls' = [calls EXCEPT ![w] =
                    Append(@, Call("llm", IF o.kind = "raises"
                                          THEN "raised" ELSE "ok"))]
    /\ IF o.kind = "raises"
       THEN Return(w, LlmErrorResponse) /\ UNCHANGED loc
       ELSE /\ Goto(w, "parse")
            /\ loc' = [loc EXCEPT ![w].raw_llm_output = o.content]
    /\ UNCHANGED <<audio_files, issued>>
    /\ UNCHANGED other_vars

\* Parse with a slip: when the output does not parse, the LLM is asked again
ParseRetries(w) ==
    /\ pc[w] = "parse"
    /\ LET r == ParseLLMOutput(loc[w].raw_llm_output)
       IN /\ loc' = [loc EXCEPT ![w] =
                       [@ EXCEPT !.long_answer = r.long_answer,
                                 !.short_answer = r.short_answer,
                                 !.media_urls = r.media_urls,
                                 !.fallback = r.fallback]]
          /\ Goto(w, IF r.fallback THEN "llm" ELSE "tts")
    /\ UNCHANGED <<calls, audio_files, issued>>
    /\ UNCHANGED other_vars

\* lines 232-251: parse the LLM output
Parse(w) ==
    /\ pc[w] = "parse"
    /\ LET r == ParseLLMOutput(loc[w].raw_llm_output)
       IN loc' = [loc EXCEPT ![w] =
                    [@ EXCEPT !.long_answer = r.long_answer,
                              !.short_answer = r.short_answer,
                              !.media_urls = r.media_urls,
                              !.fallback = r.fallback]]
    /\ Goto(w, "tts")
    /\ UNCHANGED <<calls, audio_files, issued>>
    /\ UNCHANGED other_vars

\* CallTTS with a slip: the file is written whatever the synthesis returned
CallTTSAlwaysSaves(w, o) ==
    /\ pc[w] = "tts"
    /\ calls' = [calls EXCEPT ![w] =
                    Append(@, Call("tts", IF o.kind = "raises" THEN "raised"
                                          ELSE IF o.code = 200 THEN "ok"
                                          ELSE "non200"))]
    /\ LET a == GenerateTts(o)
       IN IF a.raised
          THEN Crash(w) /\ UNCHANGED loc
          ELSE /\ loc' = [loc EXCEPT ![w] =
                            [@ EXCEPT !.audio_data = a,
                                      !.audio_url = <<>>]]
               /\ Goto(w, "save")
    /\ UNCHANGED <<audio_files, issued>>
    /\ UNCHANGED other_vars

\* lines 253-256 and 81-100: synthesize short_answer; no handler catches what
\* requests.post raises
CallTTS(w, o) ==
    /\ pc[w] = "tts"
    /\ calls' = [calls EXCEPT ![w] =
                    Append(@, Call("tts", IF o.kind = "raises" THEN "raised"
                                          ELSE IF o.code = 200 THEN "ok"
                                          ELSE "non200"))]
    /\ LET a == GenerateTts(o)
       IN IF a.raised
          THEN Crash(w) /\ UNCHANGED loc
          ELSE /\ loc' = [loc EXCEPT ![w] =
                            [@ EXCEPT !.audio_data = a,
                                      !.audio_url = <<>>]]
               /\ Goto(w, IF NotAudioData(a) THEN "respond" ELSE "save")
    /\ UNCHANGED <<audio_files, issued>>
    /\ UNCHANGED other_vars

\* what the file system does at a call of chat(): it works, or the call
\* raises (audio_files is no directory, no permission, no space)
FsOutcomes == { "ok", "raised" }

\* lines 258-261: a fresh name (uuid4() returns an identifier it has not
\* returned before), os.makedirs and open(filepath, "wb"), which creates the
\* file empty; nothing catches what makedirs or open raises
OpenFile(w, u, o) ==
    /\ pc[w] = "save"
    /\ u \notin issued
    /\ issued' = issued \cup {u}
    /\ loc' = [loc EXCEPT ![w].filename = AudioFilename(u)]
    /\ IF o = "raised"
       THEN /\ Crash(w)
            /\ calls' = [calls EXCEPT ![w] = Append(@, Call("save", "raised"))]
            /\ UNCHANGED audio_files
       ELSE /\ Goto(w, "write")
            /\ audio_files' = (AudioFilename(u) :> <<>>) @@ audio_files
            /\ UNCHANGED calls
    /\ UNCHANGED other_vars

\* lines 262-263: f.write(audio_data) and the end of the with block: the
\* bytes reach the file one chunk at a time while other handlers run; after
\* the last chunk audio_url is set. Nothing catches what the write raises,
\* and the file stays as far as it was written
WriteFile(w, o) ==
    /\ pc[w] = "write"
    /\ LET fn == loc[w].filename
           bytes == loc[w].audio_data.bytes
           n == Len(audio_files[fn]) + 1
       IN IF o = "raised"
          THEN /\ Crash(w)
               /\ calls' = [calls EXCEPT ![w] =
                               Append(@, Call("save", "raised"))]
               /\ UNCHANGED <<loc, audio_files>>
          ELSE IF n < Len(bytes)
          THEN /\ audio_files' =
                      [audio_files EXCEPT ![fn] = SubSeq(bytes, 1, n)]
               /\ UNCHANGED <<pc, response, loc, calls>>
          ELSE /\ audio_files' = [audio_files EXCEPT ![fn] = bytes]
               /\ loc' = [loc EXCEPT ![w].audio_url = AudioUrl(fn)]
               /\ calls' = [calls EXCEPT ![w] =
                               Append(@, Call("save", "ok"))]
               /\ Goto(w, "respond")
    /\ UNCHANGED issued
    /\ UNCHANGED other_vars

\* the response of step 4f
FinalResponse(l) ==
    Response(200, l.long_answer, l.short_answer, l.audio_url, l.media_urls)

\* lines 265-271: return the combined JSON
Respond(w) ==
    /\ pc[w] = "respond"
    /\ Return(w, FinalResponse(loc[w]))
    /\ returned' = IF loc[w].audio_url = <<>>
                   THEN returned
                   ELSE (loc[w].filename :> loc[w].audio_data.bytes)
                            @@ returned
    /\ UNCHANGED <<loc, calls, audio_files, issued>>
    /\ UNCHANGED env_vars

\* the response has been sent; handler w is free for the next request
Finish(w) ==
    /\ pc[w] \in {"done", "crashed"}
    /\ pc' = [pc EXCEPT ![w] = "idle"]
    /\ loc' = [loc EXCEPT ![w] = NoLocals]
    /\ response' = [response EXCEPT ![w] = NoResponse]
    /\ calls' = [calls EXCEPT ![w] = <<>>]
    /\ UNCHANGED <<audio_files, issued>>
    /\ UNCHANGED other_vars

\* the directory serve_audio reads: send_from_directory("audio_files", ...)
\* takes the relative name from the root path of the app (the directory of
\* server.py), not from the working directory. It is the directory chat()
\* writes when the server was started there; otherwise it is a directory no
\* line of the program writes to.
ServedDirectory == IF cwd = "app_root" THEN audio_files ELSE <<>>

\* the response of serve_audio: the file, or not found
FileResponse(filename, files) ==
    IF filename \in DOMAIN files
    THEN [filename |-> filename, status |-> 200, body |-> files[filename]]
    ELSE [filename |-> filename, status |-> 404, body |-> <<>>]

\* the filenames asked of GET /audio/<filename>: those chat() can have
\* written, and one it never writes
AskedFilenames == { AudioFilename(u) : u \in Uuids } \cup { <<"nope.mp3">> }

\* lines 276-278: serve_audio(filename)
ServeAudio(filename) ==
    /\ served' = FileResponse(filename, ServedDirectory)
    /\ UNCHANGED <<pc, loc, response, calls, audio_files, issued>>
    /\ UNCHANGED <<agent_vars, session, cwd, returned>>

(***************************************************************************)
(* agent.py: the Agent class.                                              *)
(***************************************************************************)
AgentPromptHead ==
    <<"\nYou are Version One, a virtual representation of Michal Hlavac. \nYou are talking to the user as Michal would, in first person on Michal's behalf.\n\nUser question:\n">>
AgentPromptTail ==
    <<"\n\nGenerate a STRICT JSON object with the keys \"long_answer\", \"short_answer\", and \"media_urls\". Example:\n{\n  \"long_answer\": \"...\",\n  \"short_answer\": \"...\",\n  \"media_urls\": [\"...\", \"...\"]\n}\n\nWhere:\n- long_answer is a very short response to the user, using the context if relevant\n- short_answer is a concise summary\n- media_urls is a list of one or more URLs IF relevant, otherwise an empty list.\n\nIf any URLs in the context seem relevant, include them in \"media_urls\".\nOutput ONLY valid JSON, with no extra commentary.\n">>

\* the texts of the turns and of the user messages given to run()
AgentTexts == { <<"q", "?">>, <<"w">> }
\* the context strings given to run()
AgentContexts == { <<>>, TxtDoc \o <<"\n", "\n">> }
\* what self.llm.predict_messages does in run()
AgentLlmOutcomes ==
    { [kind |-> "raises", content |-> <<>>],
      [kind |-> "ok", content |-> RawFull],
      [kind |-> "ok", content |-> RawNotJson] }

\* an entry of conversation_history
Turn(speaker, text) == [speaker |-> speaker, text |-> text]

\* lines 28-36: add_user_message
AddUserMessage(text) ==
    /\ Len(conversation_history) < MaxHist
    /\ conversation_history' = Append(conversation_history, Turn("user", text))
    /\ agent_call' = NoAgentCall
    /\ UNCHANGED server_vars

\* lines 38-46: add_agent_message
AddAgentMessage(text) ==
    /\ Len(conversation_history) < MaxHist
    /\ conversation_history' =
           Append(conversation_history, Turn("agent", text))
    /\ agent_call' = NoAgentCall
    /\ UNCHANGED server_vars

\* EntryMessage with a slip: every entry becomes a HumanMessage
EntryMessageHuman(entry) == HumanMessage(entry.text)

\* lines 61-64: the message of one entry of the history
EntryMessage(entry) ==
    IF entry.speaker = "user"
    THEN HumanMessage(entry.text)
    ELSE AIMessage(entry.text)

\* lines 59-64: the loop over conversation_history
HistoryMessages(history) ==
    [i \in 1..Len(history) |-> EntryMessage(history[i])]

\* lines 67-91: the f-string prompt of run()
AgentPrompt(user_message, context_str) ==
    AgentPromptHead \o user_message \o PromptMid \o context_str
    \o AgentPromptTail

\* RunMessages with a slip: the prompt is put before the history
RunMessagesPromptFirst(history, user_message, context_str) ==
    << HumanMessage(AgentPrompt(user_message, context_str)) >>
    \o HistoryMessages(history)

\* lines 58-92: the message list run() gives to the LLM
RunMessages(history, user_message, context_str) ==
    Append(HistoryMessages(history),
           HumanMessage(AgentPrompt(user_message, context_str)))

\* AgentRun with a slip: run() records the reply in the history itself
AgentRunRecords(user_message, context_str, o) ==
    /\ agent_call' =
           [ran |-> TRUE,
            user_message |-> user_message,
            context_str |-> context_str,
            sent |-> RunMessages(conversation_history, user_message,
                                 context_str),
            none |-> o.kind = "raises",
            content |-> IF o.kind = "raises" THEN <<>> ELSE o.content]
    /\ conversation_history' =
           IF o.kind = "raises" THEN conversation_history
           ELSE Append(conversation_history, Turn("agent", o.content))
    /\ UNCHANGED server_vars

\* lines 48-100: run(user_message, context_str)
AgentRun(user_message, context_str, o) ==
    /\ agent_call' =
           [ran |-> TRUE,
            user_message |-> user_message,
            context_str |-> context_str,
            sent |-> RunMessages(conversation_history, user_message,
                                 context_str),
            none |-> o.kind = "raises",
            content |-> IF o.kind = "raises" THEN <<>> ELSE o.content]
    /\ UNCHANGED conversation_history
    /\ UNCHANGED server_vars

(***************************************************************************)
(* memory.py: the Memory class.                                            *)
(***************************************************************************)
\* what the provider does in retrieve_context: as in chat(), or it answers
\* with a malformed response: an embedding without a vector (x[0].values
\* raises), a query result without a field the method reads
MemoryOutcomes ==
    RetrievalOutcomes
    \cup { [kind |-> "embed_malformed", matches |-> MatchesNone],
           [kind |-> "query_malformed", matches |-> MatchesNone] }

\* RetrieveContext with a slip: the query and the debug print are outside
\* the try block
RetrieveContextEmbedGuarded(o) ==
    [raised |-> o.kind \in {"query_raises", "query_malformed"},
     none |-> o.kind # "ok",
     results |-> IF o.kind = "ok" THEN o.matches ELSE MatchesNone]

\* lines 15-61: retrieve_context(user_message); the whole body is in one try
\* block whose handler catches Exception and returns None
RetrieveContext(o) ==
    [raised |-> FALSE,
     none |-> o.kind # "ok",
     results |-> IF o.kind = "ok" THEN o.matches ELSE MatchesNone]

(***************************************************************************)
(* One session of the pipeline that drives an Agent and a Memory, in the   *)
(* order of its control flow: append the user turn, fetch the context,     *)
(* build the prompt and call the LLM (Agent.run), parse, append the agent  *)
(* turn, then synthesis, save and response assembly. A failed retrieval    *)
(* and a failed LLM call end the cycle at once with a degraded response.   *)
(***************************************************************************)
\* the cycle starts: ConversationStore.append(user)
SessionReceive(t) ==
    /\ session.stage = "idle"
    /\ session.cycles < MaxCycles
    /\ AddUserMessage(t)
    /\ session' = [session EXCEPT !.stage = "fetch", !.user_message = t]

\* ContextRetriever.fetch: Memory.retrieve_context, then the context string
\* of the matches; None ends the cycle with the retrieval-error response
SessionFetch(o) ==
    /\ session.stage = "fetch"
    /\ LET r == RetrieveContext(o)
       IN session' =
              [session EXCEPT
                  !.provider = o,
                  !.fetched = r,
                  !.context_str =
                      IF r.raised \/ r.none THEN <<>>
                      ELSE BuildContext(MatchesOrEmpty(r.results)),
                  !.stage = IF r.raised \/ r.none THEN "failed" ELSE "run"]
    /\ UNCHANGED <<server_vars, agent_vars>>

\* PromptComposer.build and the LLM call: Agent.run; None ends the cycle
\* with the generation-error response
SessionRun(o) ==
    /\ session.stage = "run"
    /\ AgentRun(session.user_message, session.context_str, o)
    /\ session' = [session EXCEPT
                      !.stage = IF o.kind = "raises" THEN "failed"
                                ELSE "answered"]

\* ResponseParser.parse, then ConversationStore.append(agent) with the
\* answer text
SessionAppendAgent ==
    /\ session.stage = "answered"
    /\ AddAgentMessage(ParseLLMOutput(agent_call.content).short_answer)
    /\ session' = [session EXCEPT !.stage = "synth"]

\* the rest of the cycle (synthesis, save, response assembly, or the
\* degraded response of a failed stage) uses neither the Agent nor the
\* Memory; the response is returned and the cycle is complete
SessionRespond ==
    /\ session.stage \in {"synth", "failed"}
    /\ session' = [NoSession EXCEPT !.cycles = session.cycles + 1]
    /\ UNCHANGED <<server_vars, agent_vars>>

SessionNext ==
    \/ \E t \in AgentTexts : SessionReceive(t)
    \/ \E o \in MemoryOutcomes : SessionFetch(o)
    \/ \E o \in AgentLlmOutcomes : SessionRun(o)
    \/ SessionAppendAgent
    \/ SessionRespond

SessionSpec == Init /\ [][SessionNext]_vars

\* no handler is serving a request, and w is the first of them: the one that
\* takes the next request
TakesNext(w) == (\A v \in Workers : pc[v] = "idle") /\ w = 1

\* server.py has not run, or has left nothing behind
ServerUnused == (\A w \in Workers : pc[w] = "idle") /\ issued = {}

\* no Agent has been used
AgentUnused == conversation_history = <<>> /\ agent_call = NoAgentCall

\* server.py and agent.py are separate programs (server.py does not import
\* agent.py): a behaviour is a run of the server, handling one request at a
\* time, or a use of one Agent. The server is followed until MaxSaved of its
\* requests have reached the save step.
Next ==
    \/ \E w \in Workers, b \in Bodies :
           /\ AgentUnused /\ TakesNext(w)
           /\ Cardinality(issued) < MaxSaved
           /\ Receive(w, b)
    \/ \E w \in Workers, e \in EmbedOutcomes : Embed(w, e)
    \/ \E w \in Workers, o \in QueryOutcomes : Query(w, o)
    \/ \E w \in Workers : Aggregate(w)
    \/ \E w \in Workers, o \in LlmOutcomes : CallLLM(w, o)
    \/ \E w \in Workers : Parse(w)
    \/ \E w \in Workers, o \in TtsOutcomes : CallTTS(w, o)
    \/ \E w \in Workers, u \in Uuids, o \in FsOutcomes : OpenFile(w, u, o)
    \/ \E w \in Workers, o \in FsOutcomes : WriteFile(w, o)
    \/ \E w \in Workers : Respond(w)
    \/ \E w \in Workers : Finish(w)
    \/ \E t \in AgentTexts :
           ServerUnused /\ AddUserMessage(t) /\ UNCHANGED session
    \/ \E t \in AgentTexts :
           ServerUnused /\ AddAgentMessage(t) /\ UNCHANGED session
    \/ \E t \in AgentTexts, c \in AgentContexts, o \in AgentLlmOutcomes :
           ServerUnused /\ AgentRun(t, c, o) /\ UNCHANGED session

Spec == Init /\ [][Next]_vars

(***************************************************************************)
(* The server with its handlers running at once: each handler takes one    *)
(* request, and the steps of the requests interleave in every order. The   *)
(* inputs are one of each kind that reaches the LLM call.                  *)
(***************************************************************************)
ConcBodies == { BodyStr(<<"w">>) }
ConcRetrievalOutcomes ==
    { [kind |-> "ok", matches |-> MatchesList(<<MatchText>>)] }
ConcLlmOutcomes ==
    { [kind |-> "raises", content |-> <<>>],
      [kind |-> "ok", content |-> RawFull] }
ConcTtsOutcomes ==
    { [kind |-> "raises", code |-> 0, content |-> <<>>],
      [kind |-> "response", code |-> 200, content |-> AudioA],
      [kind |-> "response", code |-> 200, content |-> AudioB],
      [kind |-> "response", code |-> 500, content |-> <<"e", "r", "r">>] }

ConcNext ==
    \/ \E w \in Workers, b \in ConcBodies : Receive(w, b)
    \/ \E w \in Workers : Embed(w, "ok")
    \/ \E w \in Workers, o \in ConcRetrievalOutcomes : Query(w, o)
    \/ \E w \in Workers : Aggregate(w)
    \/ \E w \in Workers, o \in ConcLlmOutcomes : CallLLM(w, o)
    \/ \E w \in Workers : Parse(w)
    \/ \E w \in Workers, o \in ConcTtsOutcomes : CallTTS(w, o)
    \/ \E w \in Workers, u \in Uuids, o \in FsOutcomes : OpenFile(w, u, o)
    \/ \E w \in Workers, o \in FsOutcomes : WriteFile(w, o)
    \/ \E w \in Workers : Respond(w)

SpecConc == Init /\ [][ConcNext]_vars

(***************************************************************************)
(* The server and its audio store: requests one after another, each with   *)
(* one input of every kind of outcome, and GET /audio between any two of   *)
(* their steps.                                                            *)
(***************************************************************************)
StoreBodies == { BodyMissing, BodyStr(<<"w">>) }
StoreRetrievalOutcomes ==
    { [kind |-> "query_raises", matches |-> MatchesNone] }
        \cup ConcRetrievalOutcomes

StoreNext ==
    \/ \E w \in Workers, b \in StoreBodies : TakesNext(w) /\ Receive(w, b)
    \/ \E w \in Workers, e \in EmbedOutcomes : Embed(w, e)
    \/ \E w \in Workers, o \in StoreRetrievalOutcomes : Query(w, o)
    \/ \E w \in Workers : Aggregate(w)
    \/ \E w \in Workers, o \in ConcLlmOutcomes : CallLLM(w, o)
    \/ \E w \in Workers : Parse(w)
    \/ \E w \in Workers, o \in ConcTtsOutcomes : CallTTS(w, o)
    \/ \E w \in Workers, u \in Uuids, o \in FsOutcomes : OpenFile(w, u, o)
    \/ \E w \in Workers, o \in FsOutcomes : WriteFile(w, o)
    \/ \E w \in Workers : Respond(w)
    \/ \E w \in Workers : Finish(w)
    \/ \E f \in AskedFilenames : ServeAudio(f)

SpecStore == Init /\ [][StoreNext]_vars

(***************************************************************************)
(* Properties.                                                             *)
(***************************************************************************)
\* handler w's request made the external call `name`
Called(w, name) == \E i \in 1..Len(calls[w]) : calls[w][i].call = name

\* handler w's request made the external call `name` with outcome `out`
CallOutcome(w, name, out) ==
    \E i \in 1..Len(calls[w]) : calls[w][i] = [call |-> name, outcome |-> out]

\* step 4d of handler w's request has run
PastParse(w) == CallOutcome(w, "llm", "ok") /\ pc[w] # "parse"

\* r is s without its leading and trailing whitespace
IsTrimOf(r, s) ==
    \E i \in 1..(Len(s) + 1), j \in 0..Len(s) :
        /\ r = SubSeq(s, i, j)
        /\ \A k \in 1..(i - 1) : s[k] \in {" ", "\n", "\t", "\r"}
        /\ \A k \in (j + 1)..Len(s) : s[k] \in {" ", "\n", "\t", "\r"}
        /\ r # <<>> =>
               /\ r[1] \notin {" ", "\n", "\t", "\r"}
               /\ r[Len(r)] \notin {" ", "\n", "\t", "\r"}

\* the "message" member is missing, empty or whitespace only
IsBlank(body) ==
    \/ body.kind = "missing"
    \/ /\ body.kind = "str"
       /\ \A k \in 1..Len(body.s) : body.s[k] \in {" ", "\n", "\t", "\r"}

\* C1: when embed or the index query raises, the request has ended with the
\* retrieval-error answer, an empty audio_url and empty media_urls, and the
\* request calls neither the LLM nor the TTS provider
C1_RetrievalErrorShortCircuits ==
    \A w \in Workers :
        (CallOutcome(w, "embed", "raised") \/ CallOutcome(w, "query", "raised"))
        => /\ pc[w] = "done"
           /\ response[w].status = 200
           /\ response[w].long_response
                  = <<"Error retrieving context from Pinecone.">>
           /\ response[w].short_response = <<>>
           /\ response[w].audio_url = <<>>
           /\ response[w].media_urls = <<>>
           /\ ~Called(w, "llm")
           /\ ~Called(w, "tts")

\* C1 witness: a request whose index query raised has been answered
C1_Witness ==
    \E w \in Workers :
        /\ pc[w] = "done"
        /\ CallOutcome(w, "query", "raised")
        /\ response[w].long_response
               = <<"Error retrieving context from Pinecone.">>

\* C2: when the LLM call raises after a successful retrieval, the request
\* has ended with an explanatory answer, an empty audio_url and empty
\* media_urls; the TTS provider is not called and no audio file is saved
C2_LlmErrorSkipsTts ==
    \A w \in Workers :
        (CallOutcome(w, "query", "ok") /\ CallOutcome(w, "llm", "raised"))
        => /\ pc[w] = "done"
           /\ response[w].status = 200
           /\ response[w].long_response
                  = <<"Sorry, encountered an error generating the answer.">>
           /\ response[w].audio_url = <<>>
           /\ response[w].media_urls = <<>>
           /\ ~Called(w, "tts")
           /\ ~Called(w, "save")
           /\ loc[w].filename = <<>>

\* C2 witness: a request whose LLM call raised has been answered
C2_Witness ==
    \E w \in Workers :
        /\ pc[w] = "done"
        /\ CallOutcome(w, "query", "ok")
        /\ CallOutcome(w, "llm", "raised")

\* C3 (as claimed): when the TTS provider answers with a non-2xx status or
\* the transport fails, no exception escapes: the request goes on to the
\* response, which carries the parsed answer fields and media_urls with an
\* empty audio_url
C3_TtsFailureNonTerminal ==
    \A w \in Workers :
        (CallOutcome(w, "tts", "raised") \/ CallOutcome(w, "tts", "non200"))
        => /\ pc[w] \in {"respond", "done"}
           /\ loc[w].audio_url = <<>>
           /\ pc[w] = "done" =>
                  response[w] = [status |-> 200,
                                 long_response |-> loc[w].long_answer,
                                 short_response |-> loc[w].short_answer,
                                 audio_url |-> <<>>,
                                 media_urls |-> loc[w].media_urls]

\* C4: a request whose message is missing, empty or whitespace only is
\* answered with status 200, an empty audio_url and empty media_urls, and
\* makes no external call
C4_EmptyMessage ==
    \A w \in Workers :
        (pc[w] # "idle" /\ IsBlank(loc[w].data))
        => /\ pc[w] = "done"
           /\ response[w].status = 200
           /\ response[w].audio_url = <<>>
           /\ response[w].media_urls = <<>>
           /\ calls[w] = <<>>

\* C4 witness: a request with a whitespace-only message has been answered
C4_Witness ==
    \E w \in Workers :
        /\ pc[w] = "done"
        /\ loc[w].data = [kind |-> "str", s |-> <<" ", "\n">>]
        /\ response[w].status = 200

\* results.matches is None or empty
ZeroMatches(m) == m.none \/ m.items = <<>>

\* C5: when the query succeeds with no match (matches None or empty), the
\* request does not end with the retrieval error: it is on its way to the
\* LLM call or has made it, and the prompt is built with an empty context
C5_ZeroMatchesProceeds ==
    \A w \in Workers :
        (CallOutcome(w, "query", "ok") /\ ZeroMatches(loc[w].matches))
        => /\ pc[w] \in {"aggregate", "llm"} \/ Called(w, "llm")
           /\ response[w].long_response
                  # <<"Error retrieving context from Pinecone.">>
           /\ pc[w] # "aggregate" =>
                  /\ loc[w].context_str = <<>>
                  /\ loc[w].messages =
                         << [role |-> "human",
                             content |-> PromptHead \o loc[w].user_message
                                         \o PromptMid \o PromptTail] >>

\* C5 witness: the LLM has answered a request whose query returned no match
C5_Witness ==
    \E w \in Workers :
        /\ CallOutcome(w, "query", "ok")
        /\ loc[w].matches = [none |-> FALSE, items |-> <<>>]
        /\ CallOutcome(w, "llm", "ok")

\* C6: when the LLM output is not JSON, step 4d does not raise: long_answer
\* is the raw output unchanged and media_urls is empty, the request goes on
\* to the TTS call, and the response it returns carries the raw output
C6_NonJsonFallsBack ==
    \A w \in Workers :
        (PastParse(w) /\ ~JsonLoads(loc[w].raw_llm_output).ok)
        => /\ loc[w].long_answer = loc[w].raw_llm_output
           /\ loc[w].media_urls = <<>>
           /\ pc[w] = "tts" \/ Called(w, "tts")
           /\ pc[w] = "crashed" => Called(w, "tts")
           /\ pc[w] = "done" =>
                  /\ response[w].status = 200
                  /\ response[w].long_response = loc[w].raw_llm_output
                  /\ response[w].media_urls = <<>>

\* C6 witness: a request whose LLM output was "not json" has been answered
C6_Witness ==
    \E w \in Workers :
        /\ pc[w] = "done"
        /\ loc[w].raw_llm_output = <<"n", "o", "t", " ", "j", "s", "o", "n">>
        /\ response[w].long_response = loc[w].raw_llm_output

\* j, the LLM output as json.loads reads it, is a JSON object
IsObject(j) == j.ok /\ j.val.type = "dict"

\* the JSON object j has member k
HasMember(j, k) == k \in DOMAIN j.val.dict

\* the JSON object j has member k and it is a string
HasStrMember(j, k) == HasMember(j, k) /\ j.val.dict[k].type = "str"

\* C7 (as claimed): when the LLM output is a JSON object without the answer
\* field, the result is the one of a failed parse: long_answer is the whole
\* raw output and media_urls is empty
C7_MissingAnswerFallsBack ==
    \A w \in Workers :
        PastParse(w) =>
            LET j == JsonLoads(loc[w].raw_llm_output)
            IN (IsObject(j) /\ ~HasMember(j, LongKey))
               => /\ loc[w].long_answer = loc[w].raw_llm_output
                  /\ loc[w].media_urls = <<>>

\* what C8 says of the result of step 4d in handler w, j being the parsed
\* object: the answer is the answer field trimmed, media_urls is the
\* media_urls field when it is a list and empty when it is present and no
\* list, and no exception left step 4d
ParsedAsClaimed(w, j) ==
    /\ IsTrimOf(loc[w].long_answer, j.val.dict[LongKey].s)
    /\ HasMember(j, MediaKey) =>
           IF j.val.dict[MediaKey].type = "list"
           THEN loc[w].media_urls = j.val.dict[MediaKey].items
           ELSE loc[w].media_urls = <<>>
    /\ pc[w] = "crashed" => Called(w, "tts")
    /\ pc[w] = "done" =>
           /\ response[w].long_response = loc[w].long_answer
           /\ response[w].media_urls = loc[w].media_urls

\* C8 (as claimed): for every JSON object with a string answer field
C8_SuccessPathAsClaimed ==
    \A w \in Workers :
        PastParse(w) =>
            LET j == JsonLoads(loc[w].raw_llm_output)
            IN (IsObject(j) /\ HasStrMember(j, LongKey))
               => ParsedAsClaimed(w, j)

\* C8 (amended): for every JSON object with a string long_answer whose
\* short_answer is absent or a string
C8_SuccessPath ==
    \A w \in Workers :
        PastParse(w) =>
            LET j == JsonLoads(loc[w].raw_llm_output)
            IN (/\ IsObject(j)
                /\ HasStrMember(j, LongKey)
                /\ HasMember(j, ShortKey) => HasStrMember(j, ShortKey))
               => ParsedAsClaimed(w, j)

\* C8 witness: the well-formed object has been parsed and answered, its
\* answer trimmed and its two URLs kept
C8_Witness ==
    \E w \in Workers :
        /\ pc[w] = "done"
        /\ loc[w].raw_llm_output = RawFull
        /\ response[w].long_response = <<"h", "i">>
        /\ Len(response[w].media_urls) = 2

\* C9: run() over a history of length H gives the LLM exactly H+1 messages,
\* message i carrying the text of turn i with the role of its speaker
C9_PromptMessageCount ==
    agent_call.ran =>
        /\ Len(agent_call.sent) = Len(conversation_history) + 1
        /\ \A i \in 1..Len(conversation_history) :
               /\ agent_call.sent[i].content = conversation_history[i].text
               /\ conversation_history[i].speaker = "user"
                      => agent_call.sent[i].role = "human"
               /\ conversation_history[i].speaker = "agent"
                      => agent_call.sent[i].role = "ai"

\* C9 witness: run() was called over a history of MaxHist turns of both
\* speakers
C9_Witness ==
    /\ agent_call.ran
    /\ Len(conversation_history) = MaxHist
    /\ \E i, j \in 1..Len(conversation_history) :
           /\ conversation_history[i].speaker = "user"
           /\ conversation_history[j].speaker = "agent"

\* the combined message is in msgs exactly once, as its last element, with
\* the user role
CombinedLast(msgs, combined) ==
    /\ msgs # <<>>
    /\ msgs[Len(msgs)] = [role |-> "human", content |-> combined]
    /\ Cardinality({i \in 1..Len(msgs) : msgs[i].content = combined}) = 1

\* C10: in every message list given to the LLM, by run() of agent.py and by
\* chat() of server.py, the combined message (user text, context, persona
\* and schema instructions) is there exactly once, last, with the user role
C10_CombinedMessageLast ==
    /\ agent_call.ran =>
           CombinedLast(agent_call.sent,
                        AgentPromptHead \o agent_call.user_message
                        \o PromptMid \o agent_call.context_str
                        \o AgentPromptTail)
    /\ \A w \in Workers :
           Called(w, "llm") =>
               CombinedLast(loc[w].messages,
                            PromptHead \o loc[w].user_message \o PromptMid
                            \o loc[w].context_str \o PromptTail)

\* C10 witness: run() was called over a history that ends with a USER turn
C10_Witness ==
    /\ agent_call.ran
    /\ conversation_history # <<>>
    /\ conversation_history[Len(conversation_history)].speaker = "user"
    /\ Len(agent_call.sent) > 1

\* the history is USER, AGENT, USER, AGENT, ...
Alternates(history) ==
    \A i \in 1..Len(history) :
        history[i].speaker = (IF i % 2 = 1 THEN "user" ELSE "agent")

\* C11 (as claimed): between two cycles of a session, after N cycles with
\* whatever outcomes of their stages, the history has exactly 2N turns,
\* alternating USER, AGENT from a USER turn on
C11_HistoryGrowth ==
    session.stage = "idle" =>
        /\ Len(conversation_history) = 2 * session.cycles
        /\ Alternates(conversation_history)

\* C12 (as claimed): when run() has built the prompt for the user message of
\* the current cycle, no history message replayed before the final combined
\* message is that user message: its text is in the sequence only once,
\* inside the final message
C12_LatestMessageNotReplayed ==
    (session.stage # "idle" /\ agent_call.ran) =>
        \A i \in 1..(Len(agent_call.sent) - 1) :
            agent_call.sent[i].content # session.user_message

\* C15: retrieve_context never raises; when the provider fails (embed or
\* query raises, or a response is malformed) it returns None; when the
\* provider succeeds it returns the provider's result, also with no match,
\* so that no match and a failure are told apart
C15_RetrieveContextNeverRaises ==
    session.provider.kind # "" =>
        /\ ~session.fetched.raised
        /\ session.provider.kind
               \in {"embed_raises", "embed_malformed", "query_raises",
                    "query_malformed"}
           => session.fetched.none
        /\ session.provider.kind = "ok" =>
               /\ ~session.fetched.none
               /\ session.fetched.results = session.provider.matches

\* C15 witness: the provider has answered with an empty list of matches and
\* retrieve_context has returned that result, not None
C15_Witness ==
    /\ session.provider.kind = "ok"
    /\ session.provider.matches = [none |-> FALSE, items |-> <<>>]
    /\ ~session.fetched.none
    /\ session.stage = "run"

\* handler w's request has created its audio file
Saved(w) == loc[w].filename \in DOMAIN audio_files

\* p is the first chunks of q
IsPrefix(p, q) == Len(p) <= Len(q) /\ p = SubSeq(q, 1, Len(p))

\* C13: two requests that have both created their audio files, however
\* their steps interleaved, have distinct filenames; each file holds bytes
\* synthesized for its own request only, all of them once the write is
\* done, and each returned audio_url names the request's own file
C13_DistinctArtifacts ==
    \A w, v \in Workers :
        (w # v /\ Saved(w) /\ Saved(v)) =>
            /\ loc[w].filename # loc[v].filename
            /\ IsPrefix(audio_files[loc[w].filename], loc[w].audio_data.bytes)
            /\ pc[w] \in {"respond", "done"} =>
                   audio_files[loc[w].filename] = loc[w].audio_data.bytes
            /\ pc[w] = "done" =>
                   response[w].audio_url
                       = HostUrl \o <<"audio/">> \o loc[w].filename

\* C13 witness: two requests synthesized different bytes, the first saved
\* after the second, and both have been answered
C13_Witness ==
    /\ pc[1] = "done" /\ pc[2] = "done"
    /\ Saved(1) /\ Saved(2)
    /\ loc[1].audio_data.bytes = <<"ID3", "a">>
    /\ loc[2].audio_data.bytes = <<"ID3", "b">>
    /\ loc[1].filename = <<"audio_", "2", ".mp3">>
    /\ loc[2].filename = <<"audio_", "1", ".mp3">>

\* the URL of GET /audio/<filename> on the serving host
UrlOf(filename) == HostUrl \o <<"audio/">> \o filename

\* C17 (as claimed): every file a response of chat() has named in its
\* audio_url is in the directory chat() writes and holds the bytes
\* synthesized for that request; every GET /audio/<filename> for such a
\* filename, at any time after the response, returns 200 with exactly those
\* bytes, and a GET for a filename that was never saved returns not-found
C17_AudioUrlServesOwnBytes ==
    /\ [](\A f \in DOMAIN returned :
            f \in DOMAIN audio_files /\ audio_files[f] = returned[f])
    /\ [](\A w \in Workers :
            (pc[w] = "done" /\ response[w].audio_url # <<>>) =>
                /\ loc[w].filename \in DOMAIN returned
                /\ response[w].audio_url = UrlOf(loc[w].filename)
                /\ returned[loc[w].filename] = loc[w].audio_data.bytes)
    /\ [][served' # served =>
            /\ served'.filename \in DOMAIN returned =>
                   /\ served'.status = 200
                   /\ served'.body = returned[served'.filename]
            /\ served'.filename \notin DOMAIN audio_files =>
                   served'.status = 404 /\ served'.body = <<>>]_vars

\* C14 (as claimed, its safety part): a request with a non-empty message is
\* never aborted with an error status, whatever the outcomes of its stages;
\* once answered, its response has status 200 and an audio_url that is
\* empty or the URL of an audio file on the serving host
C14_NeverAborts ==
    \A w \in Workers :
        loc[w].user_message # <<>> =>
            /\ pc[w] # "crashed"
            /\ response[w].status # 500
            /\ pc[w] = "done" =>
                   /\ response[w].status = 200
                   /\ \/ response[w].audio_url = <<>>
                      \/ \E u \in Uuids :
                             response[w].audio_url = UrlOf(AudioFilename(u))

\* the names of the external calls of handler w's request, in order
CallNames(w) == [i \in 1..Len(calls[w]) |-> calls[w][i].call]

\* C16: the external calls of one request are a prefix of embed, query, LLM,
\* TTS, save: each is made at most once, in that order, none before the one
\* it depends on; a call is made only after the call before it returned
\* without an error; and the request opens its audio file only after the
\* TTS call returned
C16_CallsInOrder ==
    \A w \in Workers :
        /\ \E n \in 0..5 :
               CallNames(w)
                   = SubSeq(<<"embed", "query", "llm", "tts", "save">>, 1, n)
        /\ \A i \in 2..Len(calls[w]) : calls[w][i - 1].outcome = "ok"
        /\ (pc[w] \in {"save", "write"} \/ loc[w].filename # <<>>) =>
               CallOutcome(w, "tts", "ok")
        /\ pc[w] = "query" => calls[w] = << Call("embed", "ok") >>

\* C16 witness: a request that made all five calls has been answered
C16_Witness ==
    \E w \in Workers :
        /\ pc[w] = "done"
        /\ CallNames(w) = <<"embed", "query", "llm", "tts", "save">>

\* C18: a step that is a call of run(), whether the LLM answered or raised,
\* leaves conversation_history as it was; a step that changes the history
\* is no call of run() and appends exactly one turn, of a user or of the
\* agent, after the turns that were there
C18_RunLeavesHistory ==
    [][/\ (agent_call'.ran /\ agent_call' # agent_call) =>
              conversation_history' = conversation_history
       /\ conversation_history' # conversation_history =>
              /\ ~agent_call'.ran
              /\ Len(conversation_history') = Len(conversation_history) + 1
              /\ SubSeq(conversation_history', 1, Len(conversation_history))
                     = conversation_history
              /\ conversation_history'[Len(conversation_history')].speaker
                     \in {"user", "agent"}]_vars

\* C18 witness: run() has returned None (the LLM raised) over a history of
\* two turns
C18_Witness ==
    /\ agent_call.ran
    /\ agent_call.none
    /\ Len(conversation_history) = 2

\* how many audio files handler w's request has saved
SaveCount(w) ==
    Cardinality({ i \in 1..Len(calls[w]) : calls[w][i].call = "save" })

\* the synthesis of handler w's request returned bytes, and not none
Synthesized(w) ==
    CallOutcome(w, "tts", "ok") /\ loc[w].audio_data.bytes # <<>>

\* C19: a request that has ended without bytes from the synthesis (empty
\* message, retrieval or LLM failure, synthesis failure) has touched no
\* file, and one that was answered after the synthesis returned bytes has
\* saved one file, which holds them; audio_files changes only in the save
\* steps of a request whose synthesis returned bytes, and there only the
\* request's own file, created under a name that was not there: no other
\* file is changed and none is removed
C19_AudioStoreFrame ==
    /\ [](\A w \in Workers :
            pc[w] \in {"done", "crashed"} =>
                IF Synthesized(w)
                THEN pc[w] = "done" =>
                         /\ SaveCount(w) = 1
                         /\ loc[w].filename \in DOMAIN audio_files
                         /\ audio_files[loc[w].filename]
                                = loc[w].audio_data.bytes
                ELSE SaveCount(w) = 0 /\ loc[w].filename = <<>>)
    /\ [][audio_files' # audio_files =>
            \E w \in Workers :
                /\ Synthesized(w)
                /\ pc[w] \in {"save", "write"}
                /\ pc[w] = "save" => loc'[w].filename \notin DOMAIN audio_files
                /\ pc[w] = "write" => loc'[w].filename = loc[w].filename
                /\ DOMAIN audio_files'
                       = DOMAIN audio_files \cup {loc'[w].filename}
                /\ IsPrefix(audio_files'[loc'[w].filename],
                            loc[w].audio_data.bytes)
                /\ \A g \in DOMAIN audio_files \ {loc'[w].filename} :
                       audio_files'[g] = audio_files[g]]_vars

\* C19 witness: with two files stored by earlier requests, a request whose
\* synthesis failed has been answered and the two files are still there
C19_Witness ==
    \E w \in Workers :
        /\ pc[w] = "done"
        /\ CallOutcome(w, "tts", "non200")
        /\ SaveCount(w) = 0
        /\ Cardinality(DOMAIN audio_files) = 2

====
